---- MODULE Spec2Model ----
\* A model of the mudb document store (src/src/lib.rs): the versioned-key
\* dataset, the change buffer, the append-only log file and its handle, and
\* the operations open, insert, update, delete, commit, compact and drop;
\* the views (add_view, build_views, find_by_view) and the filter algebra
\* (QueryOp).
EXTENDS Integers, Sequences, FiniteSets, Bags, TLC

\* ------------------------------------------------------------------ bounds

\* Highest version any record reaches; mutations that would pass it are not taken.
MaxVer == 3
\* Longest change buffer; mutations that would pass it are not taken.
MaxChanged == 2
\* Longest log file; a commit that would pass it is not taken.
MaxLog == 2

\* ------------------------------------------------------------ input domains

\* IndexKey values: the identities of the model, listed in the derived Ord of
\* IndexKey. An identity is a string the caller chose or one that
\* generate_ulid_string() produced; the store treats both alike.
IdSeq == <<"id1">>
Ids == {IdSeq[i] : i \in 1..Len(IdSeq)}

\* Payloads (the type parameter T), and the absent payload (Option::None).
Objs == {"A", "B"}
NoObj == "none"

\* The closures a caller passes to update.
Ops == [Objs -> Objs]

IdRank(id) == CHOOSE i \in 1..Len(IdSeq) : IdSeq[i] = id

\* ----------------------------------------------------------------- key types

VKey(id, ver) == [id |-> id, ver |-> ver]

VersionedKeyNew(id) == VKey(id, 0)

incr(key) == VKey(key.id, key.ver + 1)

\* The derived Ord of VersionedKey: id first, then ver.
KeyLess(a, b) ==
    \/ IdRank(a.id) < IdRank(b.id)
    \/ a.id = b.id /\ a.ver < b.ver

\* ------------------------------------------------------------------- records

DocNew(key, obj) == [key |-> key, flags |-> {}, obj |-> obj]

has_flag(doc, flag) == flag \in doc.flags

\* serde_json::to_string of a Doc: one line of the log. The line carries the
\* three fields; the key is flattened to its id and ver.
to_string(doc) == <<doc.key.id, doc.key.ver, doc.flags, doc.obj>>

\* serde_json deserialisation of one line back into a Doc.
from_line(line) ==
    [key |-> VKey(line[1], line[2]), flags |-> line[3], obj |-> line[4]]

\* ------------------------------------------------------------- the OrdMap

EmptyMap == [k \in {} |-> NoObj]

MapRemove(d, k) == [x \in (DOMAIN d) \ {k} |-> d[x]]

MapInsert(d, k, v) == [x \in (DOMAIN d) \cup {k} |-> IF x = k THEN v ELSE d[x]]

\* The keys of a map in iteration (ascending) order.
RECURSIVE SortedKeys(_)
SortedKeys(ks) ==
    IF ks = {} THEN <<>>
    ELSE LET m == CHOOSE k \in ks : \A o \in ks \ {k} : KeyLess(k, o)
         IN <<m>> \o SortedKeys(ks \ {m})

\* ---------------------------------------------------------------- the state

VARIABLES
    alive,      \* TRUE while a Mudb value exists (between open and drop)
    data,       \* Mudb.data: VersionedKey -> Doc
    changed,    \* Mudb.changed: the change buffer
    modified,   \* Mudb.modified: the dirty flag
    fh,         \* Mudb.write_fh: "append" (create+append+read) or "read" (read-only)
    log,        \* the lines of the log file under Mudb.filename
    views,      \* Mudb.views: view name -> View
    filt,       \* a filter expression, the payload it is applied to, and the
                \* outcome of matches once it has run
    history     \* history variable: "mutations" while the store, opened on an empty
                \* file, has seen only insert, update and delete; "mutations_compact"
                \* right after a successful compact that ends such a sequence;
                \* "other" from then on and after any commit, drop or failed compact

vars == <<alive, data, changed, modified, fh, log, views, filt, history>>

\* The store fields that the mutations read and write.
Store(d, ch, md) == [data |-> d, changed |-> ch, modified |-> md]

\* --------------------------------------------------------------- Mudb::open

\* The replay loop: every parsed doc is inserted under its own key, so a later
\* line with the same key supersedes an earlier one.
RECURSIVE Replay(_, _)
Replay(lines, d) ==
    IF lines = <<>> THEN d
    ELSE LET doc == from_line(Head(lines))
         IN Replay(Tail(lines), MapInsert(d, doc.key, doc))

open(file) ==
    [data |-> Replay(file, EmptyMap), changed |-> <<>>, modified |-> FALSE,
     fh |-> "append"]

\* ------------------------------------------------------------- Mudb::insert

\* insert as it would be if it left the dirty flag as it found it.
insert_unflagged(st, keyopt, obj, ulid) ==
    LET key == IF keyopt = <<>> THEN VKey(ulid, 0) ELSE keyopt[1]
        doc == IF key \in DOMAIN st.data THEN st.data[key] ELSE DocNew(key, NoObj)
        removed == MapRemove(st.data, key)
    IN  IF key.ver < doc.key.ver
        THEN [data |-> removed, changed |-> st.changed, modified |-> st.modified,
              ok |-> FALSE, out |-> <<>>]
        ELSE LET new_key == incr(doc.key)
                 new_doc == [doc EXCEPT !.key = new_key, !.obj = obj]
             IN [data |-> MapInsert(removed, new_key, new_doc),
                 changed |-> Append(st.changed, new_doc),
                 modified |-> st.modified,
                 ok |-> TRUE, out |-> <<new_key>>]

\* key is the Option<VersionedKey> argument (<<>> or <<key>>), ulid the string
\* generate_ulid_string() returns when it is called.
insert(st, keyopt, obj, ulid) ==
    LET key == IF keyopt = <<>> THEN VKey(ulid, 0) ELSE keyopt[1]
        doc == IF key \in DOMAIN st.data THEN st.data[key] ELSE DocNew(key, NoObj)
        removed == MapRemove(st.data, key)
    IN  IF key.ver < doc.key.ver
        THEN [data |-> removed, changed |-> st.changed, modified |-> st.modified,
              ok |-> FALSE, out |-> <<>>]
        ELSE LET new_key == incr(doc.key)
                 new_doc == [doc EXCEPT !.key = new_key, !.obj = obj]
             IN [data |-> MapInsert(removed, new_key, new_doc),
                 changed |-> Append(st.changed, new_doc),
                 modified |-> TRUE,
                 ok |-> TRUE, out |-> <<new_key>>]

\* ------------------------------------------------- Mudb::count, exact, get

count(d) == Cardinality(DOMAIN d)

\* Option<Doc>: <<>> or <<doc>>.
exact(d, key) == IF key \in DOMAIN d THEN <<d[key]>> ELSE <<>>

\* The last entry of the range scan from (id, 0) whose identity is id.
get(d, id) ==
    LET ks == {k \in DOMAIN d : ~KeyLess(k, VersionedKeyNew(id)) /\ k.id = id}
    IN  IF ks = {} THEN <<>>
        ELSE <<d[CHOOSE k \in ks : \A o \in ks \ {k} : KeyLess(o, k)]>>

\* ------------------------------------------------------------- Mudb::update

update(st, key, op) ==
    LET e == exact(st.data, key)
        doc == IF e = <<>> THEN DocNew(VersionedKeyNew(key.id), NoObj) ELSE e[1]
    IN  IF doc.obj # NoObj
        THEN LET r == insert(st, <<doc.key>>, op[doc.obj], "")
             IN [data |-> r.data, changed |-> Append(r.changed, doc),
                 modified |-> r.modified,
                 some |-> TRUE, ok |-> r.ok, out |-> r.out]
        ELSE [data |-> st.data, changed |-> st.changed, modified |-> st.modified,
              some |-> FALSE, ok |-> TRUE, out |-> <<>>]

\* ------------------------------------------------------------- Mudb::delete

delete(st, id) ==
    IF id \in DOMAIN st.data
    THEN LET doc == st.data[id]
             tomb == [key |-> incr(doc.key), flags |-> doc.flags \cup {"Deleted"},
                      obj |-> NoObj]
         IN [data |-> MapInsert(MapRemove(st.data, id), id, tomb),
             changed |-> st.changed, modified |-> TRUE,
             found |-> TRUE, out |-> <<doc.obj>>]
    ELSE [data |-> st.data, changed |-> st.changed, modified |-> st.modified,
          found |-> FALSE, out |-> <<NoObj>>]

\* ------------------------------------------------------------- Mudb::commit

\* The write handle and the file it writes to.
Disk(h, file) == [fh |-> h, log |-> file]

\* A write through a handle that was opened read-only fails (EBADF) when the
\* BufWriter is flushed, and the early return leaves the buffer and the flag.
\* commit as it would be if the dirty flag were cleared even when nothing is queued.
commit_clears_dirty(st, dk) ==
    LET queued == Len(st.changed)
    IN  IF queued > 0 /\ dk.fh = "append"
        THEN [data |-> st.data, changed |-> <<>>, modified |-> FALSE,
              fh |-> dk.fh,
              log |-> dk.log \o [i \in 1..queued |-> to_string(st.changed[i])],
              ok |-> TRUE, out |-> <<queued>>]
        ELSE [data |-> st.data, changed |-> st.changed, modified |-> FALSE,
              fh |-> dk.fh, log |-> dk.log,
              ok |-> queued = 0, out |-> IF queued = 0 THEN <<0>> ELSE <<>>]

commit(st, dk) ==
    LET queued == Len(st.changed)
    IN  IF queued > 0
        THEN IF dk.fh = "append"
             THEN [data |-> st.data, changed |-> <<>>, modified |-> FALSE,
                   fh |-> dk.fh,
                   log |-> dk.log \o [i \in 1..queued |-> to_string(st.changed[i])],
                   ok |-> TRUE, out |-> <<queued>>]
             ELSE [data |-> st.data, changed |-> st.changed,
                   modified |-> st.modified, fh |-> dk.fh,
                   log |-> dk.log, ok |-> FALSE, out |-> <<>>]
        ELSE [data |-> st.data, changed |-> st.changed, modified |-> st.modified,
              fh |-> dk.fh, log |-> dk.log, ok |-> TRUE, out |-> <<queued>>]

\* ------------------------------------------------------------ Mudb::compact

\* The lines the rewrite loop puts into the temporary file.
DataLines(d) ==
    LET ks == SortedKeys(DOMAIN d)
    IN  [i \in 1..Len(ks) |-> to_string(d[ks[i]])]

\* compact as it would be if the buffer and the flag were cleared before the
\* rename was known to have succeeded.
compact_clears_first(st, dk, rename_ok) ==
    IF st.modified
    THEN IF rename_ok
         THEN [data |-> st.data, changed |-> <<>>, modified |-> FALSE,
               fh |-> "read", log |-> DataLines(st.data), ok |-> TRUE]
         ELSE [data |-> st.data, changed |-> <<>>, modified |-> FALSE,
               fh |-> dk.fh, log |-> dk.log, ok |-> FALSE]
    ELSE [data |-> st.data, changed |-> st.changed, modified |-> st.modified,
          fh |-> dk.fh, log |-> dk.log, ok |-> TRUE]

\* compact as it would be if the rewrite loop skipped the records without payload.
compact_live_only(st, dk, rename_ok) ==
    IF st.modified /\ rename_ok
    THEN [data |-> st.data, changed |-> <<>>, modified |-> FALSE, fh |-> "read",
          log |-> SelectSeq(DataLines(st.data), LAMBDA l : from_line(l).obj # NoObj),
          ok |-> TRUE]
    ELSE [data |-> st.data, changed |-> st.changed, modified |-> st.modified,
          fh |-> dk.fh, log |-> dk.log, ok |-> ~st.modified]

\* rename_ok: whether TempFile::replace succeeds. Dir::open reopens the file
\* read-only.
compact(st, dk, rename_ok) ==
    IF st.modified
    THEN IF rename_ok
         THEN [data |-> st.data, changed |-> <<>>, modified |-> FALSE,
               fh |-> "read", log |-> DataLines(st.data), ok |-> TRUE]
         ELSE [data |-> st.data, changed |-> st.changed, modified |-> st.modified,
               fh |-> dk.fh, log |-> dk.log, ok |-> FALSE]
    ELSE [data |-> st.data, changed |-> st.changed, modified |-> st.modified,
          fh |-> dk.fh, log |-> dk.log, ok |-> TRUE]

\* -------------------------------------------------------------- Mudb::find

\* The payloads find returns, for the set of payloads the filter matches.
find(d, matching) ==
    LET ks == SortedKeys(DOMAIN d)
    IN  SelectSeq([i \in 1..Len(ks) |-> d[ks[i]].obj],
                  LAMBDA o : o # NoObj /\ o \in matching)

\* ------------------------------------------------------------ Drop for Mudb

drop(st, dk, rename_ok) ==
    LET c == commit(st, dk)
    IN  IF c.ok
        THEN LET k == compact(Store(st.data, c.changed, c.modified),
                              Disk(dk.fh, c.log), rename_ok)
             IN [log |-> k.log, ok |-> k.ok]
        ELSE [log |-> c.log, ok |-> FALSE]

\* ------------------------------------------------------------------ actions

\* The keys a caller can pass: VersionedKey::new(id) and its incr()s.
\* ------------------------------------------------------------------ View

\* Index terms (IndexKey values an indexer can produce).
Terms == {"t1", "t2"}

\* Two indexers: one term per payload; and two terms for one payload, none
\* for the other.
ByKind == [o \in Objs |-> IF o = "A" THEN <<"t1">> ELSE <<"t2">>]
Tagged == [o \in Objs |-> IF o = "A" THEN <<"t1", "t2">> ELSE <<>>]
Indexers == {ByKind, Tagged}

\* Indexer::index, as the set of the terms in the vector it returns.
index(indexer, obj) == {indexer[obj][i] : i \in 1..Len(indexer[obj])}

\* Names under which views are registered, and one that never is.
ViewNames == {"kind"}
NoSuchView == "nonesuch"

\* View::new. snapshot is <<>> for None and <<map>> for Some(map).
ViewNew(indexer) == [snapshot |-> <<>>, inner |-> EmptyMap, indexer |-> indexer]

\* OrdMap::diff: the items that turn prev into cur, in key order.
diff(prev, cur) ==
    LET ks == SortedKeys(DOMAIN prev \cup DOMAIN cur)
        differs(k) == \/ k \notin DOMAIN prev
                      \/ k \notin DOMAIN cur
                      \/ prev[k] # cur[k]
        dk == SelectSeq(ks, differs)
        item(k) ==
            IF k \notin DOMAIN prev
            THEN [tag |-> "Add", key |-> k, doc |-> cur[k], new |-> cur[k]]
            ELSE IF k \notin DOMAIN cur
            THEN [tag |-> "Remove", key |-> k, doc |-> prev[k], new |-> prev[k]]
            ELSE [tag |-> "Update", key |-> k, doc |-> prev[k], new |-> cur[k]]
    IN  [i \in 1..Len(dk) |-> item(dk[i])]

\* The Add branch of View::apply_change.
apply_add(inner, indexer, key, doc) ==
    IF doc.obj # NoObj
    THEN LET keys == index(indexer, doc.obj)
         IN  [t \in DOMAIN inner \cup keys |->
                 IF t \in keys
                 THEN (IF t \in DOMAIN inner THEN inner[t] ELSE {}) \cup {key.id}
                 ELSE inner[t]]
    ELSE inner

\* The Remove branch of View::apply_change.
apply_remove(inner, indexer, key, doc) ==
    IF doc.obj # NoObj
    THEN LET keys == index(indexer, doc.obj)
         IN  [t \in DOMAIN inner |->
                 IF t \in keys THEN inner[t] \ {key.id} ELSE inner[t]]
    ELSE inner

apply_change(inner, indexer, delta) ==
    IF delta.tag = "Add" THEN apply_add(inner, indexer, delta.key, delta.doc)
    ELSE IF delta.tag = "Remove"
    THEN apply_remove(inner, indexer, delta.key, delta.doc)
    ELSE apply_add(apply_remove(inner, indexer, delta.key, delta.doc),
                   indexer, delta.key, delta.new)

RECURSIVE ApplyDeltas(_, _, _)
ApplyDeltas(inner, indexer, deltas) ==
    IF deltas = <<>> THEN inner
    ELSE ApplyDeltas(apply_change(inner, indexer, Head(deltas)), indexer,
                     Tail(deltas))

\* build as it would be if a view that already has a snapshot were left alone.
build_once(view, d) ==
    LET snapshot == IF view.snapshot = <<>> THEN EmptyMap ELSE view.snapshot[1]
    IN  [snapshot |-> <<snapshot>>,
         inner |-> IF view.snapshot = <<>>
                   THEN ApplyDeltas(view.inner, view.indexer, diff(snapshot, d))
                   ELSE view.inner,
         indexer |-> view.indexer]

\* View::build. The snapshot stored at the end is the one the build started
\* from (an empty map when there was none), not the data it was given.
build(view, d) ==
    LET snapshot == IF view.snapshot = <<>> THEN EmptyMap ELSE view.snapshot[1]
    IN  [snapshot |-> <<snapshot>>,
         inner |-> ApplyDeltas(view.inner, view.indexer, diff(snapshot, d)),
         indexer |-> view.indexer]

\* View::query: the identities under lookup_key, in no particular order.
query(view, lookup_key) ==
    IF lookup_key \in DOMAIN view.inner THEN view.inner[lookup_key] ELSE {}

\* Mudb::add_view: a fresh view under name, replacing any view already there.
add_view(vs, name, indexer) == MapInsert(vs, name, ViewNew(indexer))

\* Mudb::build_views
build_views(vs, d) == [n \in DOMAIN vs |-> build(vs[n], d)]

\* The payloads of the latest docs of the identities in keys, as a bag.
RECURSIVE Payloads(_, _)
Payloads(d, keys) ==
    IF keys = {} THEN EmptyBag
    ELSE LET key == CHOOSE k \in keys : TRUE
             doc == get(d, key)
             one == IF doc # <<>> /\ doc[1].obj # NoObj
                    THEN SetToBag({doc[1].obj}) ELSE EmptyBag
         IN  one (+) Payloads(d, keys \ {key})

\* find_by_view as it would be if an unknown name fell back to a registered view.
find_by_view_fallback(vs, d, name, lookup_key) ==
    IF vs # EmptyMap
    THEN Payloads(d, query(vs[IF name \in DOMAIN vs THEN name
                              ELSE CHOOSE n \in DOMAIN vs : TRUE], lookup_key))
    ELSE EmptyBag

\* Mudb::find_by_view: the vector returned, as a bag.
find_by_view(vs, d, name, lookup_key) ==
    IF name \in DOMAIN vs
    THEN Payloads(d, query(vs[name], lookup_key))
    ELSE EmptyBag

\* --------------------------------------------------------------- QueryOp

\* The two leaf predicates of a filter expression. Each is a function of the
\* payload that counts its evaluations.
Leaves == {"p", "q"}

\* What the leaf predicates answer for each payload.
Envs == [Leaves -> [Objs -> BOOLEAN]]

Leaf(name) == [op |-> name, lhs |-> <<>>, rhs |-> <<>>]

\* QueryOp::Id, Not, And, Or over references to queries.
QueryOpId(f) == [op |-> "Id", lhs |-> <<f>>, rhs |-> <<>>]
QueryOpNot(f) == [op |-> "Not", lhs |-> <<f>>, rhs |-> <<>>]
QueryOpAnd(lhs, rhs) == [op |-> "And", lhs |-> <<lhs>>, rhs |-> <<rhs>>]
QueryOpOr(lhs, rhs) == [op |-> "Or", lhs |-> <<lhs>>, rhs |-> <<rhs>>]

\* Deepest nesting of operators in a filter expression.
MaxNest == 2

\* The filter expressions with at most n operators nested.
RECURSIVE Exprs(_)
Exprs(n) ==
    IF n = 0 THEN {Leaf(l) : l \in Leaves}
    ELSE LET sub == Exprs(n - 1)
         IN  sub \cup {QueryOpId(e) : e \in sub} \cup {QueryOpNot(e) : e \in sub}
                 \cup {QueryOpAnd(a, b) : a \in sub, b \in sub}
                 \cup {QueryOpOr(a, b) : a \in sub, b \in sub}

NoCalls == [l \in Leaves |-> 0]

AddCalls(a, b) == [l \in Leaves |-> a[l] + b[l]]

\* matches as it would be if && and || evaluated both operands.
RECURSIVE matches_eager(_, _, _)
matches_eager(self, obj, env) ==
    IF self.op \in Leaves
    THEN [val |-> env[self.op][obj],
          calls |-> [l \in Leaves |-> IF l = self.op THEN 1 ELSE 0]]
    ELSE LET lhs == matches_eager(self.lhs[1], obj, env)
         IN  IF self.op = "Id" THEN lhs
             ELSE IF self.op = "Not" THEN [val |-> ~lhs.val, calls |-> lhs.calls]
             ELSE LET rhs == matches_eager(self.rhs[1], obj, env)
                  IN  [val |-> IF self.op = "And" THEN lhs.val /\ rhs.val
                                ELSE lhs.val \/ rhs.val,
                       calls |-> AddCalls(lhs.calls, rhs.calls)]

\* Query::matches for a leaf predicate and for QueryOp: the answer, and how
\* often each leaf predicate was evaluated on the way. && and || evaluate
\* their right operand only when the left one does not decide.
RECURSIVE matches(_, _, _)
matches(self, obj, env) ==
    IF self.op \in Leaves
    THEN [val |-> env[self.op][obj],
          calls |-> [l \in Leaves |-> IF l = self.op THEN 1 ELSE 0]]
    ELSE LET lhs == matches(self.lhs[1], obj, env)
         IN  IF self.op = "Id" THEN lhs
             ELSE IF self.op = "Not" THEN [val |-> ~lhs.val, calls |-> lhs.calls]
             ELSE IF self.op = "And"
             THEN IF lhs.val
                  THEN LET rhs == matches(self.rhs[1], obj, env)
                       IN  [val |-> rhs.val,
                            calls |-> AddCalls(lhs.calls, rhs.calls)]
                  ELSE [val |-> FALSE, calls |-> lhs.calls]
             ELSE IF lhs.val
                  THEN [val |-> TRUE, calls |-> lhs.calls]
                  ELSE LET rhs == matches(self.rhs[1], obj, env)
                       IN  [val |-> rhs.val,
                            calls |-> AddCalls(lhs.calls, rhs.calls)]

\* No filter expression is under evaluation.
NoFilter ==
    [expr |-> <<>>, obj |-> NoObj, env |-> <<>>, result |-> <<>>, calls |-> NoCalls]

VKeys == {VKey(id, v) : id \in Ids, v \in 0..MaxVer}

\* The bounds of the model on versions and on the change buffer.
WithinBounds(d, ch) ==
    /\ \A k \in DOMAIN d : k.ver <= MaxVer /\ d[k].key.ver <= MaxVer
    /\ Len(ch) <= MaxChanged

\* An identity that no record of the store or of the file carries and that no
\* view holds (in its inverted sets or in its snapshot): what
\* generate_ulid_string() returns.
Fresh(id) ==
    /\ \A k \in DOMAIN data : k.id # id /\ data[k].key.id # id
    /\ \A i \in 1..Len(changed) : changed[i].key.id # id
    /\ \A i \in 1..Len(log) : from_line(log[i]).key.id # id
    /\ \A n \in DOMAIN views :
           /\ \A t \in DOMAIN views[n].inner : id \notin views[n].inner[t]
           /\ \A i \in 1..Len(views[n].snapshot) :
                  \A k \in DOMAIN views[n].snapshot[i] :
                      k.id # id /\ views[n].snapshot[i][k].key.id # id

\* The state after Mudb::open on a file that does not exist yet.
Init ==
    /\ alive = TRUE
    /\ data = open(<<>>).data
    /\ changed = open(<<>>).changed
    /\ modified = open(<<>>).modified
    /\ fh = open(<<>>).fh
    /\ log = <<>>
    /\ views = EmptyMap
    /\ filt = NoFilter
    /\ history = "mutations"

InsertCall(keyopt, obj, ulid) ==
    /\ alive
    /\ LET r == insert(Store(data, changed, modified), keyopt, obj, ulid)
       IN  /\ WithinBounds(r.data, r.changed)
           /\ data' = r.data
           /\ changed' = r.changed
           /\ modified' = r.modified
    /\ history' = (IF history = "mutations" THEN "mutations" ELSE "other")
    /\ UNCHANGED <<alive, fh, log, views, filt>>

Insert ==
    \/ \E key \in VKeys, obj \in Objs : InsertCall(<<key>>, obj, "")
    \/ \E ulid \in Ids, obj \in Objs : Fresh(ulid) /\ InsertCall(<<>>, obj, ulid)

UpdateCall(key, op) ==
    /\ alive
    /\ LET r == update(Store(data, changed, modified), key, op)
       IN  /\ WithinBounds(r.data, r.changed)
           /\ data' = r.data
           /\ changed' = r.changed
           /\ modified' = r.modified
    /\ history' = (IF history = "mutations" THEN "mutations" ELSE "other")
    /\ UNCHANGED <<alive, fh, log, views, filt>>

Update == \E key \in VKeys, op \in Ops : UpdateCall(key, op)

DeleteCall(id) ==
    /\ alive
    /\ LET r == delete(Store(data, changed, modified), id)
       IN  /\ WithinBounds(r.data, r.changed)
           /\ data' = r.data
           /\ changed' = r.changed
           /\ modified' = r.modified
    /\ history' = (IF history = "mutations" THEN "mutations" ELSE "other")
    /\ UNCHANGED <<alive, fh, log, views, filt>>

Delete == \E id \in VKeys : DeleteCall(id)

Commit ==
    /\ alive
    /\ LET r == commit(Store(data, changed, modified), Disk(fh, log))
       IN  /\ Len(r.log) <= MaxLog
           /\ changed' = r.changed
           /\ modified' = r.modified
           /\ log' = r.log
           /\ data' = r.data
           /\ fh' = r.fh
    /\ history' = "other"
    /\ UNCHANGED <<alive, views, filt>>

CompactCall(rename_ok) ==
    /\ alive
    /\ LET r == compact(Store(data, changed, modified), Disk(fh, log), rename_ok)
       IN  /\ changed' = r.changed
           /\ modified' = r.modified
           /\ fh' = r.fh
           /\ log' = r.log
           /\ data' = r.data
           /\ history' = (IF history = "mutations" /\ r.ok
                          THEN "mutations_compact" ELSE "other")
    /\ UNCHANGED <<alive, views, filt>>

Compact == \E rename_ok \in BOOLEAN : CompactCall(rename_ok)

\* The store value goes out of scope; its fields are gone with it.
DropCall(rename_ok) ==
    /\ alive
    /\ LET r == drop(Store(data, changed, modified), Disk(fh, log), rename_ok)
       IN  /\ Len(r.log) <= MaxLog \/ r.log = DataLines(data)
           /\ log' = r.log
    /\ alive' = FALSE
    /\ data' = EmptyMap
    /\ changed' = <<>>
    /\ modified' = FALSE
    /\ fh' = "closed"
    /\ views' = EmptyMap
    /\ history' = "other"
    /\ UNCHANGED filt

Drop == \E rename_ok \in BOOLEAN : DropCall(rename_ok)

\* A new store is opened over the same file.
Open ==
    /\ ~alive
    /\ LET r == open(log)
       IN  /\ data' = r.data
           /\ changed' = r.changed
           /\ modified' = r.modified
           /\ fh' = r.fh
    /\ alive' = TRUE
    /\ views' = EmptyMap
    /\ history' = (IF log = <<>> THEN "mutations" ELSE "other")
    /\ UNCHANGED <<log, filt>>

AddViewCall(name, indexer) ==
    /\ alive
    /\ views' = add_view(views, name, indexer)
    /\ UNCHANGED <<alive, data, changed, modified, fh, log, filt, history>>

AddView == \E name \in ViewNames, indexer \in Indexers : AddViewCall(name, indexer)

BuildViews ==
    /\ alive
    /\ views' = build_views(views, data)
    /\ UNCHANGED <<alive, data, changed, modified, fh, log, filt, history>>

Next == Insert \/ Update \/ Delete \/ Commit \/ Compact \/ Drop \/ Open

Spec == Init /\ [][Next]_vars

\* A filter expression over counting leaf predicates, and a payload to apply
\* it to; the store plays no part.
InitFilter ==
    /\ alive = TRUE
    /\ data = open(<<>>).data
    /\ changed = open(<<>>).changed
    /\ modified = open(<<>>).modified
    /\ fh = open(<<>>).fh
    /\ log = <<>>
    /\ views = EmptyMap
    /\ history = "other"
    /\ \E expr \in Exprs(MaxNest), obj \in Objs, env \in Envs :
           filt = [expr |-> <<expr>>, obj |-> obj, env |-> env,
                   result |-> <<>>, calls |-> NoCalls]

\* filt.matches(obj) is called once.
Matches ==
    /\ filt.expr # <<>>
    /\ filt.result = <<>>
    /\ LET m == matches(filt.expr[1], filt.obj, filt.env)
       IN  filt' = [filt EXCEPT !.result = <<m.val>>, !.calls = m.calls]
    /\ UNCHANGED <<alive, data, changed, modified, fh, log, views, history>>

NextFilter == Matches

SpecFilter == InitFilter /\ [][NextFilter]_vars

\* The store with views: mutations and compactions, registering views and
\* building them.
NextViews == Insert \/ Update \/ Delete \/ Compact \/ AddView \/ BuildViews

SpecViews == Init /\ [][NextViews]_vars

\* The store under mutations and compactions alone.
NextCompaction == Insert \/ Update \/ Delete \/ Compact

SpecCompaction == Init /\ [][NextCompaction]_vars

\* ------------------------------------------------------------ the properties

\* The store as the operations take it, and its file.
Self == Store(data, changed, modified)
File == Disk(fh, log)

\* The version get(id) observes: that of the doc it returns, 0 when it returns none.
ObservedVer(d, id) == IF get(d, id) = <<>> THEN 0 ELSE get(d, id)[1].key.ver

\* get(id) returns a tombstone: a doc without payload that carries Deleted.
GetsTombstone(d, id) ==
    /\ get(d, id) # <<>>
    /\ get(d, id)[1].obj = NoObj
    /\ has_flag(get(d, id)[1], "Deleted")

\* C1. Replay equivalence: whenever a commit succeeds, a fresh store opened over
\* the file it wrote holds the data map the committing store has in memory.
C1_ReplayEquivalence ==
    alive =>
        LET c == commit(Self, File)
        IN  c.ok => open(c.log).data = data

\* C2. Stale-version guard: insert with Some(key) whose ver is lower than the
\* version of the record stored for key.id fails.
C2_StaleVersionRejected ==
    alive =>
        \A key \in VKeys, obj \in Objs :
            (get(data, key.id) # <<>> /\ key.ver < get(data, key.id)[1].key.ver)
                => ~insert(Self, <<key>>, obj, "").ok

\* C3. A successful insert(Some(key), obj) returns (key.id, prior_ver + 1), with
\* prior_ver the version stored for key.id (0 if none), whatever ver the caller
\* passed, and the new doc with payload obj is stored under the returned key.
C3_InsertReturnsPriorPlusOne ==
    alive =>
        \A key \in VKeys, obj \in Objs :
            LET r == insert(Self, <<key>>, obj, "")
                new_key == VKey(key.id, ObservedVer(data, key.id) + 1)
            IN  r.ok =>
                    /\ r.out = <<new_key>>
                    /\ exact(r.data, new_key) # <<>>
                    /\ exact(r.data, new_key)[1].obj = obj
                    /\ exact(r.data, new_key)[1].key = new_key

\* C4. The data map holds at most one entry per identity, so count() is the
\* number of identities in it.
C4_OneEntryPerIdentity ==
    /\ \A id \in Ids : Cardinality({k \in DOMAIN data : k.id = id}) <= 1
    /\ count(data) = Cardinality({k.id : k \in DOMAIN data})

\* C5. Version monotonicity: every successful insert, update or delete that
\* touches an identity leaves get(id) with a strictly greater version than
\* get(id) had before it.
C5_VersionMonotonic ==
    [][ /\ \A key \in VKeys, obj \in Objs :
              (InsertCall(<<key>>, obj, "") /\ insert(Self, <<key>>, obj, "").ok)
                  => ObservedVer(data', key.id) > ObservedVer(data, key.id)
        /\ \A key \in VKeys, op \in Ops :
              (UpdateCall(key, op) /\ update(Self, key, op).some
                                   /\ update(Self, key, op).ok)
                  => ObservedVer(data', key.id) > ObservedVer(data, key.id)
        /\ \A id \in VKeys :
              (DeleteCall(id) /\ delete(Self, id).found)
                  => ObservedVer(data', id.id) > ObservedVer(data, id.id)
      ]_vars

\* C6. Tombstone visibility: right after delete(vk) found a record at vk,
\* get(vk.id) returns a tombstone, and the record at vk gives find no payload,
\* whatever the filter matches.
C6_TombstoneVisible ==
    [][ \A vk \in VKeys :
          (DeleteCall(vk) /\ delete(Self, vk).found)
              => /\ GetsTombstone(data', vk.id)
                 /\ \A matching \in SUBSET Objs :
                       find(data', matching) = find(MapRemove(data', vk), matching)
      ]_vars

\* C7. A delete is durable after the next commit: when delete(vk) finds a record
\* and a commit follows, a fresh store opened over the file returns a tombstone
\* for get(vk.id).
C7_DeleteDurableAfterCommit ==
    alive =>
        \A vk \in VKeys :
            LET d == delete(Self, vk)
                c == commit(Store(d.data, d.changed, d.modified), File)
            IN  (d.found /\ c.ok) => GetsTombstone(open(c.log).data, vk.id)

\* C8. Clean/Dirty: every mutation sets modified, and after every successful
\* commit and every successful compact modified is false and the change buffer
\* is empty.
C8_CleanAfterCommitOrCompact ==
    alive =>
        /\ \A key \in VKeys, obj \in Objs :
              insert(Self, <<key>>, obj, "").ok
                  => insert(Self, <<key>>, obj, "").modified
        /\ \A key \in VKeys, op \in Ops :
              update(Self, key, op).some => update(Self, key, op).modified
        /\ \A vk \in VKeys :
              delete(Self, vk).found => delete(Self, vk).modified
        /\ LET c == commit(Self, File)
           IN  c.ok => ~c.modified /\ c.changed = <<>>
        /\ \A rename_ok \in BOOLEAN :
              LET k == compact(Self, File, rename_ok)
              IN  k.ok => ~k.modified /\ k.changed = <<>>

\* C9. After compact has rewritten the log of a dirty store, an insert followed
\* by a commit succeeds and appends the new record to the compacted log, and a
\* fresh open finds it.
C9_AppendAfterCompact ==
    (alive /\ modified) =>
        \A key \in VKeys, obj \in Objs :
            LET k == compact(Self, File, TRUE)
                i == insert(Store(k.data, k.changed, k.modified), <<key>>, obj, "")
                c == commit(Store(i.data, i.changed, i.modified), Disk(k.fh, k.log))
            IN  (k.ok /\ i.ok) =>
                    /\ c.ok
                    /\ c.log = Append(k.log, to_string(i.data[i.out[1]]))
                    /\ exact(open(c.log).data, i.out[1]) = <<i.data[i.out[1]]>>

\* C10. Compaction equivalence: a successful compact that ends a sequence of
\* mutations leaves the data map as it was, and the log then holds exactly
\* count() records, the docs of data in key order.
C10_CompactionEquivalence ==
    [][ (history = "mutations" /\ history' = "mutations_compact")
          => /\ data' = data
             /\ Len(log') = count(data')
             /\ log' = DataLines(data')
      ]_vars

\* C10 witness: a compact has just ended a sequence of mutations that left two
\* entries, one of them a tombstone, and the log holds two records.
C10_Witness ==
    /\ history = "mutations_compact"
    /\ count(data) = 2
    /\ \E k \in DOMAIN data : data[k].obj = NoObj
    /\ \E k \in DOMAIN data : data[k].obj # NoObj
    /\ Len(log) = 2

\* C11. Reopen after compaction: when a compact on a dirty store succeeds, a
\* fresh store opened over the file holds the data map (same keys, same docs,
\* same count) of the store that compacted.
C11_ReopenAfterCompact ==
    (alive /\ modified) =>
        LET k == compact(Self, File, TRUE)
        IN  k.ok => /\ open(k.log).data = k.data
                    /\ count(open(k.log).data) = count(k.data)

\* C12. Release durability: with no file-system fault, after the store is
\* dropped a fresh store opened over the file returns from get(id), for every
\* identity, the doc the dropped store returned just before.
C12_ReleaseDurable ==
    alive =>
        \A id \in Ids :
            get(open(drop(Self, File, TRUE).log).data, id) = get(data, id)

\* C16. update(key, op): when data has a doc with a payload at exactly key,
\* update returns Some(Ok(key.incr())), afterwards get(key.id) carries
\* op(old payload) and exact(key) is none; when there is no doc at exactly key
\* or the doc there is a tombstone, update returns None and leaves data, the
\* change buffer and the dirty flag as they were.
C16_UpdateContract ==
    alive =>
        \A key \in VKeys : \A op \in Ops :
            LET e == exact(data, key)
                u == update(Self, key, op)
            IN  IF e # <<>> /\ e[1].obj # NoObj
                THEN /\ u.some /\ u.ok
                     /\ u.out = <<incr(key)>>
                     /\ get(u.data, key.id) # <<>>
                     /\ get(u.data, key.id)[1].obj = op[e[1].obj]
                     /\ exact(u.data, key) = <<>>
                ELSE /\ ~u.some
                     /\ u.data = data
                     /\ u.changed = changed
                     /\ u.modified = modified

\* C19. No-op idempotence: commit with an empty change buffer returns 0 and
\* leaves the log, data, the change buffer, the dirty flag and the file handle
\* as they were; compact on a store that is not modified leaves the log, data,
\* the change buffer and the file handle as they were.
C19_NoOpIdempotence ==
    alive =>
        /\ changed = <<>> =>
               LET r == commit(Self, File)
               IN  /\ r.ok /\ r.out = <<0>>
                   /\ r.log = log /\ r.data = data /\ r.changed = changed
                   /\ r.modified = modified /\ r.fh = fh
        /\ ~modified =>
               \A rename_ok \in BOOLEAN :
                   LET k == compact(Self, File, rename_ok)
                   IN  /\ k.ok
                       /\ k.log = log /\ k.data = data /\ k.changed = changed
                       /\ k.modified = modified /\ k.fh = fh

\* A clean store with an empty buffer whose log is longer than its data map:
\* both no-op cases apply, and a compact that ran would shorten the log.
C19_Witness ==
    /\ alive /\ changed = <<>> /\ ~modified
    /\ fh = "append"
    /\ Len(log) > count(data)
    /\ commit(Self, File).out = <<0>>
    /\ compact(Self, File, TRUE).log = log

\* C20. Doc well-formedness: in every reachable state every doc in data has
\* no payload if and only if its flags contain Deleted.
C20_DocWellFormed ==
    \A k \in DOMAIN data :
        (data[k].obj = NoObj) <=> has_flag(data[k], "Deleted")

\* The data map holds at most one entry for each identity.
SingleEntry(d) == \A k1 \in DOMAIN d, k2 \in DOMAIN d : k1.id = k2.id => k1 = k2

\* C13. View consistency (converse): after build_views in any reachable state,
\* every identity a view's query(t) returns resolves via get to a tombstone or
\* to a doc whose payload indexes to t. Stated here for the stores that hold one
\* entry per identity, so that a failure is the views' own.
C13_ViewConverse ==
    (alive /\ SingleEntry(data)) =>
        LET vs == build_views(views, data)
        IN  \A name \in DOMAIN vs : \A t \in Terms :
                \A id \in query(vs[name], t) :
                    LET doc == get(data, id)
                    IN  doc # <<>> =>
                            \/ doc[1].obj = NoObj
                            \/ t \in index(vs[name].indexer, doc[1].obj)

\* C14. View consistency (forward): right after build_views in any reachable
\* state, for every registered view, every doc in data with a payload and every
\* term the view's indexer gives for that payload, the doc's identity is in the
\* view's query of that term.
C14_ViewForward ==
    alive =>
        LET vs == build_views(views, data)
        IN  \A name \in DOMAIN vs : \A k \in DOMAIN data :
                data[k].obj # NoObj =>
                    \A t \in index(vs[name].indexer, data[k].obj) :
                        k.id \in query(vs[name], t)

\* A view that has been built over the data it now sees and indexes a live doc
\* under two terms.
C14_Witness ==
    /\ alive
    /\ "kind" \in DOMAIN views
    /\ views["kind"].snapshot # <<>>
    /\ views = build_views(views, data)
    /\ \E k \in DOMAIN data :
           /\ data[k].obj # NoObj
           /\ Cardinality(index(views["kind"].indexer, data[k].obj)) = 2
           /\ \A t \in Terms : k.id \in query(views["kind"], t)

\* C15. Tombstones leave the views: when an identity is indexed under a term
\* of a view, its record is deleted and build_views runs again, the view's
\* query of that term no longer returns the identity.
C15_TombstoneLeavesViews ==
    alive =>
        \A name \in DOMAIN views : \A t \in Terms : \A key \in VKeys :
            LET d == delete(Self, key)
                vs == build_views(views, d.data)
            IN  (key.id \in query(views[name], t) /\ d.found)
                    => key.id \notin query(vs[name], t)

\* C17. find_by_view(name, term) is empty when no view is registered under
\* name; otherwise it returns one payload for each identity in the view's
\* query(term) whose latest doc has a payload, that payload, and nothing else.
C17_FindByView ==
    alive =>
        \A t \in Terms :
            /\ find_by_view(views, data, NoSuchView, t) = EmptyBag
            /\ \A name \in DOMAIN views :
                   LET r == find_by_view(views, data, name, t)
                       live == {id \in query(views[name], t) :
                                    /\ get(data, id) # <<>>
                                    /\ get(data, id)[1].obj # NoObj}
                   IN  /\ BagCardinality(r) = Cardinality(live)
                       /\ \A o \in Objs :
                              CopiesIn(o, r) =
                                  Cardinality({id \in live : get(data, id)[1].obj = o})
                       /\ \A o \in BagToSet(r) : o \in Objs

\* A registered view returns a payload for one term and nothing for the other,
\* and the unregistered name returns nothing.
C17_Witness ==
    /\ alive
    /\ "kind" \in DOMAIN views
    /\ query(views["kind"], "t1") # {}
    /\ \E o \in Objs : find_by_view(views, data, "kind", "t1") = SetToBag({o})
    /\ find_by_view(views, data, "kind", "t2") = EmptyBag
    /\ find_by_view(views, data, NoSuchView, "t1") = EmptyBag

\* The answer of a filter expression on the payload and the leaf answers of
\* the state.
Answer(expr) == matches(expr, filt.obj, filt.env)

\* C18. Filter algebra: for the evaluated expression, Id(p) answers as p,
\* Not(p) answers the negation of p (and Not(Not(p)) answers as p), And(p, q)
\* answers p and q, Or(p, q) answers p or q; And does not evaluate q when p
\* is false and Or does not evaluate q when p is true, so the evaluation
\* counts of the leaf predicates are those of p alone.
C18_FilterAlgebra ==
    (filt.expr # <<>> /\ filt.result # <<>>) =>
        LET top == filt.expr[1]
            op == top.op
            res == filt.result[1]
        IN  /\ op \in Leaves =>
                /\ res = filt.env[op][filt.obj]
                /\ filt.calls = [l \in Leaves |-> IF l = op THEN 1 ELSE 0]
            /\ op = "Id" => res = Answer(top.lhs[1]).val
            /\ op = "Not" => res = ~Answer(top.lhs[1]).val
            /\ (op = "Not" /\ top.lhs[1].op = "Not")
                   => res = Answer(top.lhs[1].lhs[1]).val
            /\ op = "And" =>
                /\ res = (Answer(top.lhs[1]).val /\ Answer(top.rhs[1]).val)
                /\ filt.calls =
                       IF Answer(top.lhs[1]).val
                       THEN AddCalls(Answer(top.lhs[1]).calls,
                                     Answer(top.rhs[1]).calls)
                       ELSE Answer(top.lhs[1]).calls
            /\ op = "Or" =>
                /\ res = (Answer(top.lhs[1]).val \/ Answer(top.rhs[1]).val)
                /\ filt.calls =
                       IF Answer(top.lhs[1]).val
                       THEN Answer(top.lhs[1]).calls
                       ELSE AddCalls(Answer(top.lhs[1]).calls,
                                     Answer(top.rhs[1]).calls)
            /\ (op = "And" /\ top.lhs[1] = Leaf("p") /\ top.rhs[1] = Leaf("q")
                    /\ ~filt.env["p"][filt.obj]) => filt.calls["q"] = 0
            /\ (op = "Or" /\ top.lhs[1] = Leaf("p") /\ top.rhs[1] = Leaf("q")
                    /\ filt.env["p"][filt.obj]) => filt.calls["q"] = 0

\* And(p, q) has been evaluated on a payload for which p is false and q is
\* true: the answer is false and q was not asked.
C18_Witness ==
    /\ filt.expr = <<QueryOpAnd(Leaf("p"), Leaf("q"))>>
    /\ ~filt.env["p"][filt.obj]
    /\ filt.env["q"][filt.obj]
    /\ filt.result = <<FALSE>>
    /\ filt.calls = [l \in Leaves |-> IF l = "p" THEN 1 ELSE 0]

\* C21. Every successful insert, update on a live exact key and delete of an
\* existing key grows the change buffer by exactly one record, the new doc the
\* mutation placed in data (so that commit returns the number of successful
\* mutations since the last commit or compact).
C21_OneRecordPerMutation ==
    alive =>
        /\ \A key \in VKeys : \A obj \in Objs :
               LET r == insert(Self, <<key>>, obj, "")
               IN  r.ok => r.changed = Append(changed, r.data[r.out[1]])
        /\ \A key \in VKeys : \A op \in Ops :
               LET u == update(Self, key, op)
               IN  (u.some /\ u.ok) => u.changed = Append(changed, u.data[u.out[1]])
        /\ \A key \in VKeys :
               LET d == delete(Self, key)
               IN  d.found => d.changed = Append(changed, d.data[key])

\* C22. Compact failure is atomic: when the rename step of compact fails,
\* compact returns an error and the log file, data, the change buffer, the
\* dirty flag and the file handle are as before the call.
C22_CompactFailureAtomic ==
    (alive /\ modified) =>
        LET k == compact(Self, File, FALSE)
        IN  /\ ~k.ok
            /\ k.log = log /\ k.data = data /\ k.changed = changed
            /\ k.modified = modified /\ k.fh = fh

\* A dirty store with a buffered record and a log that a compact would
\* rewrite, on which a compact whose rename fails returns an error.
C22_Witness ==
    /\ alive /\ modified
    /\ changed # <<>>
    /\ log # <<>>
    /\ fh = "append"
    /\ compact(Self, File, TRUE).log # log
    /\ ~compact(Self, File, FALSE).ok

\* C23. Key/record agreement: in every reachable state every entry of data is
\* stored under the map key equal to the key field of its doc, so exact(k)
\* returns a doc whose key is k.
C23_KeyRecordAgreement ==
    \A k \in DOMAIN data :
        /\ data[k].key = k
        /\ exact(data, k)[1].key = k

\* C24. A failed insert has no effect: whenever insert returns the
\* stale-version error, data, the change buffer and the dirty flag are as
\* before the call, and count() is unchanged.
C24_FailedInsertNoEffect ==
    alive =>
        \A key \in VKeys : \A obj \in Objs :
            LET r == insert(Self, <<key>>, obj, "")
            IN  ~r.ok => /\ r.data = data
                         /\ r.changed = changed
                         /\ r.modified = modified
                         /\ count(r.data) = count(data)

\* C25. The dirty flag covers the buffer: in every reachable state, when
\* modified is false the change buffer is empty; and a compact, whichever
\* branch it takes, leaves every buffered record that is in data either in the
\* buffer or in the log.
C25_DirtyCoversBuffer ==
    /\ ~modified => changed = <<>>
    /\ alive =>
           \A rename_ok \in BOOLEAN :
               LET k == compact(Self, File, rename_ok)
               IN  \A i \in 1..Len(changed) :
                       (\E key \in DOMAIN data : data[key] = changed[i])
                           => \/ k.changed = changed
                              \/ \E j \in 1..Len(k.log) :
                                     k.log[j] = to_string(changed[i])

\* A store that a commit left clean: the buffer is empty, the flag false, the
\* committed record is in data and in the log, and compact takes its no-op
\* branch.
C25_Witness ==
    /\ alive /\ ~modified /\ changed = <<>>
    /\ fh = "append"
    /\ \E key \in DOMAIN data : \E j \in 1..Len(log) : log[j] = to_string(data[key])
    /\ compact(Self, File, TRUE).log = log

====
